---- MODULE Spec2Model ----
(***************************************************************************)
(* The expression evaluator of src/src/lib.rs as a state machine:          *)
(* calculate -> evaluate_expression -> tokenize, to_rpn, evaluate_rpn.     *)
(* One action is one iteration of a loop of the source (with the inner     *)
(* loops it runs), or the return of a function.                            *)
(*                                                                         *)
(* f64 values are modelled as exact fractions <<num, den>> in lowest terms *)
(* with den > 0; <<1,0>>, <<-1,0>> and <<0,0>> stand for +inf, -inf and    *)
(* NaN.  Rounding is not modelled.                                         *)
(***************************************************************************)
EXTENDS Integers, Sequences, FiniteSets, TLC

\* ------------------------------------------------------------------ bounds
MaxInput == 4
MaxTokens == 5
MaxPostfix == 5
MaxInfix == 6

\* ------------------------------------------------------------- characters
Digits == {"0", "1", "2", "3", "4", "5", "6", "7", "8", "9"}

OperatorChars == {"+", "-", "*", "/"}

DigitValue(c) ==
    CASE c = "0" -> 0 [] c = "1" -> 1 [] c = "2" -> 2 [] c = "3" -> 3
      [] c = "4" -> 4 [] c = "5" -> 5 [] c = "6" -> 6 [] c = "7" -> 7
      [] c = "8" -> 8 [] c = "9" -> 9

\* digit.is_digit(10) || digit == '.'
IsNumberChar(c) == c \in Digits \/ c = "."

\* the arms of the match on the peeked character
CharClassSkipUnknown(c) ==
    IF IsNumberChar(c) THEN "number"
    ELSE IF c \in OperatorChars THEN "operator"
    ELSE IF c = "(" THEN "lparen"
    ELSE IF c = ")" THEN "rparen"
    ELSE "space"

CharClass(c) ==
    IF IsNumberChar(c) THEN "number"
    ELSE IF c \in OperatorChars THEN "operator"
    ELSE IF c = "(" THEN "lparen"
    ELSE IF c = ")" THEN "rparen"
    ELSE IF c = " " THEN "space"
    ELSE "unknown"

\* ------------------------------------------------------------- f64 values
Abs(n) == IF n < 0 THEN -n ELSE n

Sgn(n) == IF n < 0 THEN -1 ELSE IF n > 0 THEN 1 ELSE 0

RECURSIVE GCD(_, _)
GCD(a, b) == IF b = 0 THEN a ELSE GCD(b, a % b)

Norm(n, d) ==
    IF d = 0 THEN <<Sgn(n), 0>>
    ELSE LET g == GCD(Abs(n), Abs(d))
             s == IF d < 0 THEN -1 ELSE 1
         IN  <<(s * n) \div g, (s * d) \div g>>

IsFinite(v) == v[2] # 0

Zero == <<0, 1>>

FAdd(a, b) ==
    IF IsFinite(a) /\ IsFinite(b) THEN Norm(a[1] * b[2] + b[1] * a[2], a[2] * b[2])
    ELSE IF ~IsFinite(a) /\ ~IsFinite(b) THEN (IF a = b THEN a ELSE <<0, 0>>)
    ELSE IF ~IsFinite(a) THEN a ELSE b

FNeg(a) == <<-a[1], a[2]>>

FSub(a, b) == FAdd(a, FNeg(b))

FMul(a, b) == Norm(a[1] * b[1], a[2] * b[2])

FDiv(a, b) ==
    IF ~IsFinite(a) /\ ~IsFinite(b) THEN <<0, 0>>
    ELSE Norm(a[1] * b[2], a[2] * b[1])

\* ----------------------------------------------------------------- tokens
\* enum Token { Number(f64), Operator(char), LeftParen, RightParen }
Number(v) == [type |-> "Number", op |-> "", value |-> v]

Operator(c) == [type |-> "Operator", op |-> c, value |-> Zero]

LeftParen == [type |-> "LeftParen", op |-> "", value |-> Zero]

RightParen == [type |-> "RightParen", op |-> "", value |-> Zero]

\* ---------------------------------------------------------------- results
\* Result<_, String>: the messages of the source, by tag
\*   "InvalidNumber"        "Невірне число: {number_str}"
\*   "UnknownChar"          "Невідомий символ: {c}"
\*   "UnclosedParens"       "Незакриті дужки."
\*   "InsufficientOperands" "Недостатньо операндів для виконання операції."
\*   "DivisionByZero"       "Помилка: Ділення на нуль."
\*   "UnknownOperation"     "Невідома операція: {op}"
\*   "InvalidToken"         "Невірний токен."
\*   "InvalidExpression"    "Невірний вираз."
NoResult == [status |-> "none", value |-> Zero, msg |-> "", detail |-> <<>>]

Ok(v) == [status |-> "Ok", value |-> v, msg |-> "", detail |-> <<>>]

Err(m, d) == [status |-> "Err", value |-> Zero, msg |-> m, detail |-> d]

\* ------------------------------------------------------------ f64::from_str
\* on a string of digits and '.': at most one '.', at least one digit
CountDots(s) == Cardinality({i \in 1..Len(s) : s[i] = "."})

CountDigits(s) == Cardinality({i \in 1..Len(s) : s[i] \in Digits})

RECURSIVE Pow10(_)
Pow10(k) == IF k = 0 THEN 1 ELSE 10 * Pow10(k - 1)

RECURSIVE DigitsValue(_)
DigitsValue(s) ==
    IF s = <<>> THEN 0
    ELSE IF s[Len(s)] = "." THEN DigitsValue(SubSeq(s, 1, Len(s) - 1))
    ELSE 10 * DigitsValue(SubSeq(s, 1, Len(s) - 1)) + DigitValue(s[Len(s)])

FractionDigits(s) ==
    IF CountDots(s) = 0 THEN 0
    ELSE Len(s) - (CHOOSE i \in 1..Len(s) : s[i] = ".")

ParseF64(s) ==
    IF CountDots(s) > 1 \/ CountDigits(s) = 0 THEN Err("InvalidNumber", s)
    ELSE Ok(Norm(DigitsValue(s), Pow10(FractionDigits(s))))

\* -------------------------------------------------------------- precedence
PrecedenceFlat(op) ==
    IF op \in OperatorChars THEN 1 ELSE 0

precedence(op) ==
    IF op \in {"+", "-"} THEN 1
    ELSE IF op \in {"*", "/"} THEN 2
    ELSE 0

\* ------------------------------------------------------------------ to_rpn
Top(s) == s[Len(s)]

Pop(s) == SubSeq(s, 1, Len(s) - 1)

\* if precedence(*top_op) >= precedence(op)
ShouldPopStrict(top_op, op) == precedence(top_op) > precedence(op)

ShouldPop(top_op, op) == precedence(top_op) >= precedence(op)

\* while let Some(Token::Operator(top_op)) = operators.back() { ... }
RECURSIVE PopOperators(_, _, _)
PopOperators(out, ops, op) ==
    IF ops # <<>> /\ Top(ops).type = "Operator" /\ ShouldPop(Top(ops).op, op)
    THEN PopOperators(Append(out, Top(ops)), Pop(ops), op)
    ELSE [output |-> out, operators |-> ops]

\* the RightParen arm with the LeftParen pushed to the output instead of dropped
RECURSIVE CloseParenEmit(_, _)
CloseParenEmit(out, ops) ==
    IF ops = <<>> THEN [output |-> out, operators |-> ops]
    ELSE IF Top(ops).type = "LeftParen"
         THEN [output |-> Append(out, Top(ops)), operators |-> Pop(ops)]
    ELSE CloseParenEmit(Append(out, Top(ops)), Pop(ops))

\* while let Some(op) = operators.pop_back() { if LeftParen break else push }
RECURSIVE CloseParen(_, _)
CloseParen(out, ops) ==
    IF ops = <<>> THEN [output |-> out, operators |-> ops]
    ELSE IF Top(ops).type = "LeftParen" THEN [output |-> out, operators |-> Pop(ops)]
    ELSE CloseParen(Append(out, Top(ops)), Pop(ops))

\* one iteration of `for token in tokens`
RpnToken(out, ops, token) ==
    CASE token.type = "Number" -> [output |-> Append(out, token), operators |-> ops]
      [] token.type = "Operator" ->
            LET p == PopOperators(out, ops, token.op)
            IN  [output |-> p.output, operators |-> Append(p.operators, token)]
      [] token.type = "LeftParen" -> [output |-> out, operators |-> Append(ops, token)]
      [] token.type = "RightParen" -> CloseParen(out, ops)

\* the final loop with a LeftParen skipped instead of reported
RECURSIVE DrainSkipParen(_, _)
DrainSkipParen(out, ops) ==
    IF ops = <<>> THEN [status |-> "Ok", output |-> out, msg |-> ""]
    ELSE IF Top(ops).type = "LeftParen" THEN DrainSkipParen(out, Pop(ops))
    ELSE DrainSkipParen(Append(out, Top(ops)), Pop(ops))

\* the final loop and the return of to_rpn
RECURSIVE Drain(_, _)
Drain(out, ops) ==
    IF ops = <<>> THEN [status |-> "Ok", output |-> out, msg |-> ""]
    ELSE IF Top(ops).type = "LeftParen"
         THEN [status |-> "Err", output |-> <<>>, msg |-> "UnclosedParens"]
    ELSE Drain(Append(out, Top(ops)), Pop(ops))

\* to_rpn as a function of its argument
RECURSIVE RpnLoop(_, _, _)
RpnLoop(toks, out, ops) ==
    IF toks = <<>> THEN Drain(out, ops)
    ELSE LET s == RpnToken(out, ops, Head(toks))
         IN  RpnLoop(Tail(toks), s.output, s.operators)

ToRpn(toks) == RpnLoop(toks, <<>>, <<>>)

\* ------------------------------------------------------------ evaluate_rpn
\* the match on op with the zero test on the left operand
ApplyOperatorTestLeft(op, a, b) ==
    CASE op = "+" -> Ok(FAdd(a, b))
      [] op = "-" -> Ok(FSub(a, b))
      [] op = "*" -> Ok(FMul(a, b))
      [] op = "/" -> IF a = Zero THEN Err("DivisionByZero", <<>>) ELSE Ok(FDiv(a, b))
      [] OTHER -> Err("UnknownOperation", <<op>>)

\* let result = match op { ... }
ApplyOperator(op, a, b) ==
    CASE op = "+" -> Ok(FAdd(a, b))
      [] op = "-" -> Ok(FSub(a, b))
      [] op = "*" -> Ok(FMul(a, b))
      [] op = "/" -> IF b = Zero THEN Err("DivisionByZero", <<>>) ELSE Ok(FDiv(a, b))
      [] OTHER -> Err("UnknownOperation", <<op>>)

\* one iteration of `for token in rpn`
EvalToken(stk, token) ==
    CASE token.type = "Number" -> [stack |-> Append(stk, token.value), result |-> NoResult]
      [] token.type = "Operator" ->
            IF Len(stk) < 2
            THEN [stack |-> stk, result |-> Err("InsufficientOperands", <<>>)]
            ELSE LET b == stk[Len(stk)]
                     a == stk[Len(stk) - 1]
                     r == ApplyOperator(token.op, a, b)
                 IN  IF r.status = "Err"
                     THEN [stack |-> SubSeq(stk, 1, Len(stk) - 2), result |-> r]
                     ELSE [stack |-> Append(SubSeq(stk, 1, Len(stk) - 2), r.value),
                           result |-> NoResult]
      [] OTHER -> [stack |-> stk, result |-> Err("InvalidToken", <<>>)]

\* the final test with only the empty stack rejected
EvalFinishNonEmpty(stk) ==
    IF Len(stk) = 0 THEN Err("InvalidExpression", <<>>) ELSE Ok(stk[1])

\* if stack.len() != 1 { Err } else Ok(stack[0])
EvalFinish(stk) ==
    IF Len(stk) # 1 THEN Err("InvalidExpression", <<>>) ELSE Ok(stk[1])

\* evaluate_rpn as a function of its argument
RECURSIVE EvalLoop(_, _)
EvalLoop(post, stk) ==
    IF post = <<>> THEN EvalFinish(stk)
    ELSE LET e == EvalToken(stk, Head(post))
         IN  IF e.result.status = "Err" THEN e.result ELSE EvalLoop(Tail(post), e.stack)

EvaluateRpn(post) == EvalLoop(post, <<>>)

\* ------------------------------------------------------ evaluate_expression
\* the `?` with the error dropped
TryNextIgnoreErr(r, next) == next

\* the `?` of `let tokens = tokenize(expr)?` and `let rpn = to_rpn(tokens)?`
TryNext(r, next) == IF r.status = "Err" THEN "evaluated" ELSE next

\* to_rpn(tokens)? followed by evaluate_rpn(&rpn)
EvaluateTokens(toks) ==
    LET r == ToRpn(toks)
    IN  IF TryNext(r, "evaluate_rpn") = "evaluate_rpn"
        THEN EvaluateRpn(r.output)
        ELSE Err(r.msg, <<>>)

\* ------------------------------------------------------------------- state
VARIABLES
    input,      \* expr, as a sequence of characters
    pos,        \* chars: index of the character peek() returns
    tokens,     \* tokenize: tokens; then the argument of to_rpn
    tpos,       \* to_rpn: index of the token the for loop takes next
    output,     \* to_rpn: output
    operators,  \* to_rpn: operators
    rpn,        \* the argument of evaluate_rpn
    rpos,       \* evaluate_rpn: index of the token the for loop takes next
    stack,      \* evaluate_rpn: stack
    result,     \* the Result on its way to calculate
    returned,   \* what calculate returned
    pc          \* where the call is

vars == <<input, pos, tokens, tpos, output, operators, rpn, rpos, stack, result,
          returned, pc>>

\* ---------------------------------------------------------------- tokenize
\* the inner while: index after the last digit or '.' from position i on
RECURSIVE NumberEnd(_, _)
NumberEnd(s, i) ==
    IF i <= Len(s) /\ IsNumberChar(s[i]) THEN NumberEnd(s, i + 1) ELSE i

\* one iteration of `while let Some(&c) = chars.peek()`
TokenizeChar(s, i) ==
    LET c == s[i]
        k == CharClass(c)
    IN  CASE k = "number" ->
                LET e == NumberEnd(s, i)
                    r == ParseF64(SubSeq(s, i, e - 1))
                IN  IF r.status = "Err"
                    THEN [pos |-> e, token |-> <<>>, result |-> r]
                    ELSE [pos |-> e, token |-> <<Number(r.value)>>, result |-> NoResult]
          [] k = "operator" -> [pos |-> i + 1, token |-> <<Operator(c)>>, result |-> NoResult]
          [] k = "lparen" -> [pos |-> i + 1, token |-> <<LeftParen>>, result |-> NoResult]
          [] k = "rparen" -> [pos |-> i + 1, token |-> <<RightParen>>, result |-> NoResult]
          [] k = "space" -> [pos |-> i + 1, token |-> <<>>, result |-> NoResult]
          [] OTHER -> [pos |-> i, token |-> <<>>, result |-> Err("UnknownChar", <<c>>)]

TokenizeStep ==
    /\ pc = "tokenize"
    /\ pos <= Len(input)
    /\ LET t == TokenizeChar(input, pos)
       IN  /\ pos' = t.pos
           /\ tokens' = tokens \o t.token
           /\ result' = t.result
           /\ pc' = IF t.result.status = "Err" THEN "tokenized" ELSE "tokenize"
    /\ UNCHANGED <<input, tpos, output, operators, rpn, rpos, stack, returned>>

\* Ok(tokens)
TokenizeEnd ==
    /\ pc = "tokenize"
    /\ pos > Len(input)
    /\ pc' = "tokenized"
    /\ UNCHANGED <<input, pos, tokens, tpos, output, operators, rpn, rpos, stack,
                   result, returned>>

\* let tokens = tokenize(expr)?;
TryTokenize ==
    /\ pc = "tokenized"
    /\ pc' = TryNext(result, "to_rpn")
    /\ UNCHANGED <<input, pos, tokens, tpos, output, operators, rpn, rpos, stack,
                   result, returned>>

\* ------------------------------------------------------------------ to_rpn
ToRpnStep ==
    /\ pc = "to_rpn"
    /\ tpos <= Len(tokens)
    /\ LET s == RpnToken(output, operators, tokens[tpos])
       IN  /\ output' = s.output
           /\ operators' = s.operators
    /\ tpos' = tpos + 1
    /\ UNCHANGED <<input, pos, tokens, rpn, rpos, stack, result, returned, pc>>

ToRpnEnd ==
    /\ pc = "to_rpn"
    /\ tpos > Len(tokens)
    /\ LET d == Drain(output, operators)
       IN  /\ rpn' = d.output
           /\ result' = IF d.status = "Err" THEN Err(d.msg, <<>>) ELSE result
    /\ pc' = "converted"
    /\ UNCHANGED <<input, pos, tokens, tpos, output, operators, rpos, stack, returned>>

\* let rpn = to_rpn(tokens)?;
TryToRpn ==
    /\ pc = "converted"
    /\ pc' = TryNext(result, "evaluate_rpn")
    /\ UNCHANGED <<input, pos, tokens, tpos, output, operators, rpn, rpos, stack,
                   result, returned>>

\* ------------------------------------------------------------ evaluate_rpn
EvaluateRpnStep ==
    /\ pc = "evaluate_rpn"
    /\ rpos <= Len(rpn)
    /\ LET e == EvalToken(stack, rpn[rpos])
       IN  /\ stack' = e.stack
           /\ result' = IF e.result.status = "Err" THEN e.result ELSE result
           /\ pc' = IF e.result.status = "Err" THEN "evaluated" ELSE "evaluate_rpn"
    /\ rpos' = rpos + 1
    /\ UNCHANGED <<input, pos, tokens, tpos, output, operators, rpn, returned>>

EvaluateRpnEnd ==
    /\ pc = "evaluate_rpn"
    /\ rpos > Len(rpn)
    /\ result' = EvalFinish(stack)
    /\ pc' = "evaluated"
    /\ UNCHANGED <<input, pos, tokens, tpos, output, operators, rpn, rpos, stack,
                   returned>>

\* --------------------------------------------------------------- calculate
\* match evaluate_expression(expression) { Ok(result) => result.to_string(), Err(e) => e }
\* the text of a number is kept as the value it is the text of
Calculate ==
    /\ pc = "evaluated"
    /\ returned' = IF result.status = "Ok"
                   THEN [number |-> TRUE, value |-> result.value, text |-> ""]
                   ELSE [number |-> FALSE, value |-> Zero, text |-> result.msg]
    /\ pc' = "done"
    /\ UNCHANGED <<input, pos, tokens, tpos, output, operators, rpn, rpos, stack,
                   result>>

\* ------------------------------------------------------------------ inputs
SeqsUpTo(S, n) == UNION {[1..k -> S] : k \in 0..n}

InputChars == {"0", "1", "2", ".", "+", "-", "/", "(", ")", " ", "a"}

TokenAlphabet ==
    {Number(<<1, 1>>), Operator("+"), Operator("-"), Operator("*"), Operator("/"),
     LeftParen, RightParen}

PostfixAlphabet ==
    {Number(<<0, 1>>), Number(<<1, 1>>), Number(<<2, 1>>),
     Operator("+"), Operator("-"), Operator("*"), Operator("/"),
     LeftParen, RightParen}

Start(in, toks, post, at) ==
    /\ input = in
    /\ pos = 1
    /\ tokens = toks
    /\ tpos = 1
    /\ output = <<>>
    /\ operators = <<>>
    /\ rpn = post
    /\ rpos = 1
    /\ stack = <<>>
    /\ result = NoResult
    /\ returned = [number |-> FALSE, value |-> Zero, text |-> ""]
    /\ pc = at

\* calculate(expression) on any text of at most MaxInput characters
Init == \E in \in SeqsUpTo(InputChars, MaxInput) : Start(in, <<>>, <<>>, "tokenize")

Next ==
    \/ TokenizeStep
    \/ TokenizeEnd
    \/ TryTokenize
    \/ ToRpnStep
    \/ ToRpnEnd
    \/ TryToRpn
    \/ EvaluateRpnStep
    \/ EvaluateRpnEnd
    \/ Calculate

Spec == Init /\ [][Next]_vars

\* to_rpn(tokens) on any token sequence of at most MaxTokens tokens, and what
\* evaluate_expression does with its result
InitTokens == \E toks \in SeqsUpTo(TokenAlphabet, MaxTokens) : Start(<<>>, toks, <<>>, "to_rpn")

NextTokens ==
    \/ ToRpnStep
    \/ ToRpnEnd
    \/ TryToRpn
    \/ EvaluateRpnStep
    \/ EvaluateRpnEnd
    \/ Calculate

SpecTokens == InitTokens /\ [][NextTokens]_vars

\* evaluate_rpn(rpn) on any token sequence of at most MaxPostfix tokens
InitPostfix ==
    \E post \in SeqsUpTo(PostfixAlphabet, MaxPostfix) : Start(<<>>, <<>>, post, "evaluate_rpn")

NextPostfix ==
    \/ EvaluateRpnStep
    \/ EvaluateRpnEnd

SpecPostfix == InitPostfix /\ [][NextPostfix]_vars

\* ------------------------------------------------- well-formed expressions
\* The texts of expressions, one character a token: a one-digit literal, an
\* expression in parentheses, or two expressions with a binary operator
\* between them.
InfixLiterals == {"0", "2", "3", "4", "8"}

RECURSIVE WellFormed(_)
WellFormed(n) ==
    IF n < 1 \/ n % 2 = 0 THEN {}
    ELSE IF n = 1 THEN {<<c>> : c \in InfixLiterals}
    ELSE {<<"(">> \o e \o <<")">> : e \in WellFormed(n - 2)}
         \cup UNION {{a \o <<o>> \o b :
                          a \in WellFormed(i), b \in WellFormed(n - 1 - i),
                          o \in OperatorChars} : i \in 1..(n - 2)}

\* evaluate_expression on any well-formed expression text of at most MaxInfix
\* characters
InitInfix ==
    \E n \in 1..MaxInfix : \E e \in WellFormed(n) : Start(e, <<>>, <<>>, "tokenize")

SpecInfix == InitInfix /\ [][Next]_vars

\* --------------------------------------------------- reference evaluation
\* The value of an expression text read one character a token, by splitting
\* at the operator that is applied last: the rightmost + or - outside
\* parentheses; if there is none, the rightmost * or / outside parentheses.
ParenDepth(s, i) ==
    Cardinality({j \in 1..i : s[j] = "("}) - Cardinality({j \in 1..i : s[j] = ")"})

TopLevel(s, cs) == {i \in 1..Len(s) : s[i] \in cs /\ ParenDepth(s, i) = 0}

Max(S) == CHOOSE x \in S : \A y \in S : y <= x

RefApply(c, l, r) ==
    IF ~l.ok \/ ~r.ok THEN [ok |-> FALSE, value |-> Zero]
    ELSE CASE c = "+" -> [ok |-> TRUE, value |-> FAdd(l.value, r.value)]
           [] c = "-" -> [ok |-> TRUE, value |-> FSub(l.value, r.value)]
           [] c = "*" -> [ok |-> TRUE, value |-> FMul(l.value, r.value)]
           [] c = "/" -> IF r.value = Zero THEN [ok |-> FALSE, value |-> Zero]
                         ELSE [ok |-> TRUE, value |-> FDiv(l.value, r.value)]

RECURSIVE RefEval(_)
RefEval(s) ==
    LET add == TopLevel(s, {"+", "-"})
        mul == TopLevel(s, {"*", "/"})
        Split(i) == RefApply(s[i], RefEval(SubSeq(s, 1, i - 1)),
                             RefEval(SubSeq(s, i + 1, Len(s))))
    IN  IF add # {} THEN Split(Max(add))
        ELSE IF mul # {} THEN Split(Max(mul))
        ELSE IF Len(s) = 1 THEN [ok |-> TRUE, value |-> <<DigitValue(s[1]), 1>>]
        ELSE RefEval(SubSeq(s, 2, Len(s) - 1))

\* (C2) For every well-formed expression without a zero divisor,
\* evaluate_expression returns the value of the reference evaluation: * and /
\* bind tighter than + and -, equal precedence groups left to right, the
\* earlier operand is the left one.
C2_ReferenceValue ==
    (pc = "done" /\ RefEval(input).ok) =>
        /\ result = Ok(RefEval(input).value)
        /\ returned = [number |-> TRUE, value |-> RefEval(input).value, text |-> ""]

\* "2+3*4" has been evaluated to 14, "8-3-2" to 3 or "8/4/2" to 1
C2_Witness ==
    /\ pc = "done"
    /\ \/ input = <<"2", "+", "3", "*", "4">> /\ result = Ok(<<14, 1>>)
       \/ input = <<"8", "-", "3", "-", "2">> /\ result = Ok(<<3, 1>>)
       \/ input = <<"8", "/", "4", "/", "2">> /\ result = Ok(<<1, 1>>)

\* ------------------------------------------------- parentheses, by counting
\* "(" for an opening parenthesis, ")" for a closing one, "x" for anything else
TokenShape(toks) ==
    [i \in 1..Len(toks) |->
        IF toks[i].type = "LeftParen" THEN "("
        ELSE IF toks[i].type = "RightParen" THEN ")" ELSE "x"]

Opens(s, i, j) == Cardinality({k \in i..j : s[k] = "("})

Closes(s, i, j) == Cardinality({k \in i..j : s[k] = ")"})

\* some closing parenthesis has no opening one before it to match
UnmatchedClose(s) == \E i \in 1..Len(s) : Closes(s, 1, i) > Opens(s, 1, i)

\* some opening parenthesis is never closed
Unclosed(s) ==
    \E i \in 1..Len(s) :
        /\ s[i] = "("
        /\ \A j \in (i + 1)..Len(s) : Closes(s, i + 1, j) <= Opens(s, i + 1, j)

\* every prefix has at least as many "(" as ")" and the totals are equal
Balanced(s) == ~UnmatchedClose(s) /\ Opens(s, 1, Len(s)) = Closes(s, 1, Len(s))

LexMsgs == {"InvalidNumber", "UnknownChar"}

SyntaxMsgs == {"UnclosedParens"}

EvalMsgs == {"InsufficientOperands", "DivisionByZero", "UnknownOperation",
             "InvalidToken", "InvalidExpression"}

AfterToRpn == {"converted", "evaluate_rpn", "evaluated", "done"}

\* ---------------------------------------------------------------------- C1
\* (C1) Whenever to_rpn meets a RightParen that no LeftParen on the operator
\* stack matches, to_rpn fails with a SyntaxError and returns no postfix
\* sequence, and the call returns no number.
C1_UnmatchedCloseIsSyntaxError ==
    (pc \in AfterToRpn /\ tpos > Len(tokens) /\ UnmatchedClose(TokenShape(tokens))) =>
        /\ result.status = "Err"
        /\ result.msg \in SyntaxMsgs
        /\ rpn = <<>>
        /\ ~returned.number

\* ---------------------------------------------------------------------- C3
DividesByZero ==
    /\ pc = "evaluate_rpn"
    /\ rpos <= Len(rpn)
    /\ rpn[rpos] = Operator("/")
    /\ Len(stack) >= 2
    /\ stack[Len(stack)] = Zero

\* (C3) Whenever evaluate_rpn applies '/' with a right operand (the value on
\* top of the stack) equal to zero, it returns the division-by-zero error at
\* once; no value that is not a finite number is ever on the stack or returned.
C3_DivisionByZeroStops ==
    /\ [][DividesByZero =>
            /\ pc' = "evaluated"
            /\ result' = Err("DivisionByZero", <<>>)]_vars
    /\ [](\A i \in 1..Len(stack) : IsFinite(stack[i]))
    /\ [](result.status = "Ok" => IsFinite(result.value))

\* a division by zero met after other operators were applied has been refused
C3_Witness ==
    /\ pc = "evaluated"
    /\ result = Err("DivisionByZero", <<>>)
    /\ rpos = 6
    /\ rpn[5] = Operator("/")
    /\ rpn[3].type = "Operator"

\* ---------------------------------------------------------------------- C4
OnlyNumbersAndOperators(post) ==
    \A i \in 1..Len(post) : post[i].type \in {"Number", "Operator"}

\* the stack size after the first i tokens, by counting
Depth(post, i) ==
    Cardinality({j \in 1..i : post[j].type = "Number"})
    - Cardinality({j \in 1..i : post[j].type = "Operator"})

Starved(post) ==
    {i \in 1..Len(post) : post[i].type = "Operator" /\ Depth(post, i - 1) < 2}

\* (C4) For every sequence of Number and Operator tokens on which no division
\* by zero is met, evaluate_rpn returns a value iff every Operator finds at
\* least two values and exactly one value is left at the end; otherwise the
\* error is insufficient operands if some Operator finds fewer than two
\* values, and invalid expression if the final stack size is not one.  A
\* sequence with a LeftParen or RightParen in it never yields a value.
C4_StackDiscipline ==
    pc = "evaluated" =>
        /\ (OnlyNumbersAndOperators(rpn) /\ result.msg # "DivisionByZero") =>
              /\ result.status = "Ok" <=> (Starved(rpn) = {} /\ Depth(rpn, Len(rpn)) = 1)
              /\ Starved(rpn) # {} => result = Err("InsufficientOperands", <<>>)
              /\ (Starved(rpn) = {} /\ Depth(rpn, Len(rpn)) # 1) =>
                      result = Err("InvalidExpression", <<>>)
        /\ ~OnlyNumbersAndOperators(rpn) => result.status = "Err"

\* "1 2" (two values left) has been refused as an invalid expression
C4_Witness ==
    /\ pc = "evaluated"
    /\ Len(rpn) = 2
    /\ rpn[1].type = "Number"
    /\ rpn[2].type = "Number"
    /\ result = Err("InvalidExpression", <<>>)

\* ---------------------------------------------------------------------- C5
HasLeftParen(ops) == \E i \in 1..Len(ops) : ops[i].type = "LeftParen"

EndOfTokens == pc = "to_rpn" /\ tpos > Len(tokens)

\* (C5) If a LeftParen is on the operator stack when the tokens are used up,
\* to_rpn returns the unclosed-parentheses error and no postfix sequence, and
\* evaluate_rpn is not run.  The same in terms of the tokens: some LeftParen
\* is never closed.
C5_UnclosedIsSyntaxError ==
    /\ [][(EndOfTokens /\ HasLeftParen(operators)) =>
            /\ pc' = "converted"
            /\ result' = Err("UnclosedParens", <<>>)
            /\ rpn' = <<>>]_vars
    /\ []((pc \in AfterToRpn /\ Unclosed(TokenShape(tokens))) =>
            /\ result = Err("UnclosedParens", <<>>)
            /\ rpn = <<>>
            /\ pc # "evaluate_rpn"
            /\ rpos = 1
            /\ stack = <<>>)

\* unclosed parentheses were reported with an operator above the LeftParen
C5_Witness ==
    /\ pc = "done"
    /\ result = Err("UnclosedParens", <<>>)
    /\ operators # <<>>
    /\ Top(operators).type = "Operator"
    /\ ~returned.number

\* ---------------------------------------------------------------------- C7
Wrap(toks) == <<LeftParen>> \o toks \o <<RightParen>>

\* (C7) For every token sequence E with balanced parentheses, to_rpn of
\* LeftParen, E, RightParen is the postfix sequence to_rpn made of E, and the
\* result of evaluating it is the result for E.
C7_RedundantParens ==
    Balanced(TokenShape(tokens)) =>
        /\ pc \in AfterToRpn =>
              ToRpn(Wrap(tokens)) = [status |-> "Ok", output |-> rpn, msg |-> ""]
        /\ pc = "done" => EvaluateTokens(Wrap(tokens)) = result

\* an expression with parentheses and an operator in it has been evaluated
C7_Witness ==
    /\ pc = "done"
    /\ Balanced(TokenShape(tokens))
    /\ \E i \in 1..Len(tokens) : tokens[i].type = "LeftParen"
    /\ result.status = "Ok"
    /\ Len(rpn) >= 3

\* ---------------------------------------------------------------------- C9
\* (C9) Whenever to_rpn succeeds, its postfix sequence holds only Number and
\* Operator tokens, and evaluate_rpn never reports an invalid token.
C9_NoParenInPostfix ==
    /\ OnlyNumbersAndOperators(output)
    /\ (pc \in AfterToRpn /\ result.msg # "UnclosedParens") => OnlyNumbersAndOperators(rpn)
    /\ result.msg # "InvalidToken"

\* a sequence with both kinds of parentheses was converted and evaluated
C9_Witness ==
    /\ pc = "done"
    /\ \E i \in 1..Len(tokens) : tokens[i].type = "LeftParen"
    /\ \E i \in 1..Len(tokens) : tokens[i].type = "RightParen"
    /\ Len(rpn) >= 3
    /\ result.status = "Ok"

\* --------------------------------------------------------------------- C10
Rank(op) == IF op \in {"+", "-"} THEN 1 ELSE 2

\* (C10) On the operator stack, two Operator tokens next to each other (no
\* LeftParen between them) have strictly increasing precedence from bottom
\* to top, so no three Operator tokens are next to each other.
C10_RunsIncrease ==
    /\ \A i \in 1..(Len(operators) - 1) :
          (operators[i].type = "Operator" /\ operators[i + 1].type = "Operator") =>
              Rank(operators[i].op) < Rank(operators[i + 1].op)
    /\ \A i \in 1..(Len(operators) - 2) :
          ~(/\ operators[i].type = "Operator"
            /\ operators[i + 1].type = "Operator"
            /\ operators[i + 2].type = "Operator")

\* two runs of an additive below a multiplicative operator, a LeftParen between
C10_Witness ==
    /\ pc = "to_rpn"
    /\ Len(operators) = 5
    /\ operators[1].type = "Operator"
    /\ operators[2].type = "Operator"
    /\ operators[3].type = "LeftParen"
    /\ operators[4].type = "Operator"
    /\ operators[5].type = "Operator"

\* ------------------------------------------------------ the text, by reading
KnownChars == Digits \cup {"."} \cup OperatorChars \cup {"(", ")", " "}

NumberChars == Digits \cup {"."}

HasUnknownChar(s) == \E i \in 1..Len(s) : s[i] \notin KnownChars

\* a maximal run of digits and '.' with more than one '.' or without a digit
MalformedLiteral(s) ==
    \E i \in 1..Len(s) : \E j \in i..Len(s) :
        /\ \A k \in i..j : s[k] \in NumberChars
        /\ i = 1 \/ s[i - 1] \notin NumberChars
        /\ j = Len(s) \/ s[j + 1] \notin NumberChars
        /\ \/ Cardinality({k \in i..j : s[k] = "."}) > 1
           \/ \A k \in i..j : s[k] = "."

LexProblem(s) == HasUnknownChar(s) \/ MalformedLiteral(s)

NotSpace(c) == c # " "

Strip(s) == SelectSeq(s, NotSpace)

\* a '-' at the start of the text or directly after an operator or '('
UnaryMinus(s) ==
    LET t == Strip(s)
    IN  \E i \in 1..Len(t) :
            /\ t[i] = "-"
            /\ i = 1 \/ t[i - 1] \in OperatorChars \cup {"("}

\* a number directly followed by '(', or ')' directly followed by a number or '('
ImplicitMultiplication(s) ==
    LET t == Strip(s)
    IN  \E i \in 1..(Len(t) - 1) :
            \/ t[i] \in NumberChars /\ t[i + 1] = "("
            \/ t[i] = ")" /\ t[i + 1] \in NumberChars \cup {"("}

\* ---------------------------------------------------------------------- C6
\* (C6, as claimed) Every text with a unary minus or an implicit
\* multiplication fails in tokenize with a LexError, and neither to_rpn nor
\* evaluate_rpn runs on it.
C6_RejectedByTokenizer ==
    (pc = "done" /\ (UnaryMinus(input) \/ ImplicitMultiplication(input))) =>
        /\ result.status = "Err"
        /\ result.msg \in LexMsgs
        /\ tpos = 1
        /\ rpos = 1

\* (C6, amended) On a text with a unary minus or an implicit multiplication,
\* tokenize returns a LexError iff the text holds an unknown character or a
\* malformed numeric literal; otherwise tokenize succeeds, to_rpn runs on all
\* of its tokens, and the call returns no LexError.
C6_TokenizerIgnoresContext ==
    (UnaryMinus(input) \/ ImplicitMultiplication(input)) =>
        /\ pc = "tokenized" =>
              /\ result.status = "Err" <=> LexProblem(input)
              /\ result.status = "Err" => result.msg \in LexMsgs
        /\ (pc = "done" /\ ~LexProblem(input)) =>
              /\ result.msg \notin LexMsgs
              /\ tokens # <<>>
              /\ tpos = Len(tokens) + 1

\* "-1 1" and the like: a text that starts with a minus has been evaluated to
\* a number
C6_Witness ==
    /\ pc = "done"
    /\ UnaryMinus(input)
    /\ input[1] = "-"
    /\ result.status = "Ok"
    /\ returned.number

\* ---------------------------------------------------------------------- C8
\* (C8) tokenize, to_rpn and evaluate_rpn run in this order; a stage runs
\* only after the stage before it succeeded; a lexical problem anywhere in
\* the text gives a LexError, else an unclosed parenthesis gives the
\* SyntaxError, else the result is that of evaluate_rpn; a failing call
\* returns its message and no number.
C8_FirstFailureWins ==
    /\ pc \in {"tokenize", "tokenized"} =>
          tpos = 1 /\ output = <<>> /\ operators = <<>> /\ rpos = 1 /\ stack = <<>>
    /\ pc \in {"to_rpn", "converted"} =>
          pos > Len(input) /\ rpos = 1 /\ stack = <<>>
    /\ pc = "evaluate_rpn" =>
          pos > Len(input) /\ tpos > Len(tokens) /\ result.status = "none"
    /\ pc \in {"evaluated", "done"} =>
          /\ result.status \in {"Ok", "Err"}
          /\ LexProblem(input) =>
                /\ result.status = "Err" /\ result.msg \in LexMsgs
                /\ tpos = 1 /\ output = <<>> /\ operators = <<>>
                /\ rpos = 1 /\ stack = <<>>
          /\ (~LexProblem(input) /\ Unclosed(input)) =>
                /\ result = Err("UnclosedParens", <<>>)
                /\ tpos > Len(tokens)
                /\ rpos = 1 /\ stack = <<>>
          /\ (~LexProblem(input) /\ ~Unclosed(input)) =>
                /\ result.status = "Err" => result.msg \in EvalMsgs
                /\ tpos > Len(tokens)
    /\ pc = "done" =>
          /\ returned.number <=> result.status = "Ok"
          /\ result.status = "Err" => returned.text = result.msg
          /\ returned.number => rpos > Len(rpn)

\* "(/0a" and the like: the unknown character at the end of the text wins over
\* the unclosed parenthesis at its start and the division between them
C8_Witness ==
    /\ pc = "done"
    /\ Len(input) = 4
    /\ input[1] = "("
    /\ input[2] = "/"
    /\ input[4] = "a"
    /\ result = Err("UnknownChar", <<"a">>)
    /\ returned = [number |-> FALSE, value |-> Zero, text |-> "UnknownChar"]

====
